---- MODULE Spec2Model ----
(***************************************************************************)
(* Payment lifecycle and entitlement ledger of the Telegram PIX bot.       *)
(*                                                                         *)
(* The persisted table `payments` (payments.db) is shared by two store     *)
(* implementations: DatabaseManager of bot.py (sqlite3, used by the bot's  *)
(* handlers) and DatabaseManager of database_manager.py (SQLAlchemy, used  *)
(* by the dashboard and callable as a library).  `store` says which of     *)
(* the two this run exercises.  Every handler or store call is a flow      *)
(* that runs in a thread of its own; a flow's steps are the points where   *)
(* another thread can run: taking the lock, the body of a critical         *)
(* section, a call to the payment provider.                                *)
(***************************************************************************)
EXTENDS Integers, Sequences, FiniteSets, TLC

VARIABLES payments, clock, lock, flows, issued, store

vars == <<payments, clock, lock, flows, issued, store>>

----------------------------------------------------------------------------
(* Bounds of the model *)

MaxFlows == 2
MaxPayments == 1
MaxUsers == 2
MaxChats == 2
MaxEpochs == 1
MaxDrift == 1

(* timedelta(days=30); the clock counts days *)
ThirtyDays == 30

Flows == 1..MaxFlows
PaymentIds == 1..MaxPayments
(* payments.db outlives the bot: the table can hold the record of a charge *)
(* of an earlier run, whose id the provider issued before the ids it       *)
(* issues now.  Rows are scanned in payment_id order.                      *)
MaxRecords == MaxPayments + 1
OldId == MaxRecords
RowIds == 1..MaxRecords
Users == 1..MaxUsers
Chats == 1..MaxChats

(* Python's None, for a string and for a timestamp column *)
None == "None"
NoTime == 0 - 1
NoId == 0

(* The instants the clock can show: a few consecutive days, in MaxEpochs+1 *)
(* periods that lie thirty days apart.                                     *)
ClockValues == {e * ThirtyDays + d : e \in 0..MaxEpochs, d \in 0..MaxDrift}

(* callback_data "pack_basico" / "pack_premium" -> pack_type argument *)
PackTypes == {"Basico", "Premium"}
(* The PIX code the provider issues for a charge: an opaque string of its own *)
PixCode(id) == "pix" \o ToString(id)

(* str.lower() on the pack_type, as handle_pack_selection applies it *)
lower(pack_type) ==
    CASE pack_type = "Basico" -> "basico"
      [] pack_type = "Premium" -> "premium"
      [] OTHER -> pack_type

(* from_user.username or from_user.first_name *)
username(user_id) == "user" \o ToString(user_id)

(* Status strings the provider can carry in response.status *)
ProviderStatuses == {"pending", "approved", "rejected", "cancelled", "in_process"}

StoreKinds == {"sqlite3", "sqlalchemy"}

----------------------------------------------------------------------------
(* The payments table *)

Row(user_id, name, chat_id, pack_type, status, pix_code, created_at, approved_at, expires_at) ==
    [user_id |-> user_id, username |-> name, chat_id |-> chat_id,
     pack_type |-> pack_type, status |-> status, pix_code |-> pix_code,
     created_at |-> created_at, approved_at |-> approved_at, expires_at |-> expires_at]

Exists(db, payment_id) == payment_id \in DOMAIN db

(* Mutant of save_payment: status and pix_code bound in the wrong order *)
save_payment_swapped(db, payment_id, user_id, name, chat_id, pack_type, pix_code, status, created_at) ==
    [p \in (DOMAIN db) \cup {payment_id} |->
        IF p = payment_id
        THEN Row(user_id, name, chat_id, pack_type, pix_code, status, created_at, NoTime, NoTime)
        ELSE db[p]]

(* INSERT OR REPLACE INTO payments ... VALUES (..., created_at, None, None) *)
save_payment(db, payment_id, user_id, name, chat_id, pack_type, pix_code, status, created_at) ==
    [p \in (DOMAIN db) \cup {payment_id} |->
        IF p = payment_id
        THEN Row(user_id, name, chat_id, pack_type, status, pix_code, created_at, NoTime, NoTime)
        ELSE db[p]]

(* Mutant of update_payment_status: the approval does not set expires_at *)
update_payment_status_no_expiry(db, payment_id, status, now) ==
    [p \in DOMAIN db |->
        IF p # payment_id THEN db[p]
        ELSE IF status = "approved"
        THEN [db[p] EXCEPT !.status = status, !.approved_at = now]
        ELSE [db[p] EXCEPT !.status = status]]

(* Mutant of update_payment_status: the one-day horizon of create_payment  *)
(* used for the pack                                                       *)
update_payment_status_one_day(db, payment_id, status, now) ==
    [p \in DOMAIN db |->
        IF p # payment_id THEN db[p]
        ELSE IF status = "approved"
        THEN [db[p] EXCEPT !.status = status, !.approved_at = now,
                           !.expires_at = now + 1]
        ELSE [db[p] EXCEPT !.status = status]]

(* Mutant of update_payment_status: any other status clears the approval *)
update_payment_status_clears(db, payment_id, status, now) ==
    [p \in DOMAIN db |->
        IF p # payment_id THEN db[p]
        ELSE IF status = "approved"
        THEN [db[p] EXCEPT !.status = status, !.approved_at = now,
                           !.expires_at = now + ThirtyDays]
        ELSE [db[p] EXCEPT !.status = status, !.approved_at = NoTime,
                           !.expires_at = NoTime]]

(* Mutant of update_payment_status: a cancelled record is deleted *)
update_payment_status_purge(db, payment_id, status, now) ==
    [p \in (DOMAIN db) \ (IF status = "cancelled" THEN {payment_id} ELSE {}) |->
        IF p # payment_id THEN db[p]
        ELSE IF status = "approved"
        THEN [db[p] EXCEPT !.status = status, !.approved_at = now,
                           !.expires_at = now + ThirtyDays]
        ELSE [db[p] EXCEPT !.status = status]]

(* Mutant of update_payment_status: the UPDATE without its WHERE clause *)
update_payment_status_no_where(db, payment_id, status, now) ==
    [p \in DOMAIN db |->
        IF status = "approved"
        THEN [db[p] EXCEPT !.status = status, !.approved_at = now,
                           !.expires_at = now + ThirtyDays]
        ELSE [db[p] EXCEPT !.status = status]]

(* UPDATE payments SET status = ?[, approved_at = ?, expires_at = ?]       *)
(* WHERE payment_id = ?; `now` is the one datetime.now() of the call.      *)
update_payment_status(db, payment_id, status, now) ==
    [p \in DOMAIN db |->
        IF p # payment_id THEN db[p]
        ELSE IF status = "approved"
        THEN [db[p] EXCEPT !.status = status, !.approved_at = now,
                           !.expires_at = now + ThirtyDays]
        ELSE [db[p] EXCEPT !.status = status]]

(* Mutant of IsActiveFor: expires_at >= ? *)
IsActiveFor_ge(row, user_id, now_iso) ==
    /\ row.user_id = user_id
    /\ row.status = "approved"
    /\ row.expires_at # NoTime
    /\ row.expires_at >= now_iso

(* Mutant of IsActiveFor: the WHERE clause without user_id = ? *)
IsActiveFor_any_user(row, user_id, now_iso) ==
    /\ row.status = "approved"
    /\ row.expires_at # NoTime
    /\ row.expires_at > now_iso

(* The WHERE clause of get_user_active_packs; a NULL expires_at compares   *)
(* to NULL, which does not select the row.                                 *)
IsActiveFor(row, user_id, now_iso) ==
    /\ row.user_id = user_id
    /\ row.status = "approved"
    /\ row.expires_at # NoTime
    /\ row.expires_at > now_iso

RECURSIVE SelectActive(_, _, _, _)
SelectActive(db, user_id, now_iso, p) ==
    IF p > MaxRecords THEN <<>>
    ELSE (IF Exists(db, p) /\ IsActiveFor(db[p], user_id, now_iso)
          THEN << <<db[p].pack_type, db[p].expires_at>> >>
          ELSE <<>>) \o SelectActive(db, user_id, now_iso, p + 1)

(* SELECT pack_type, expires_at FROM payments WHERE ...; rows come in      *)
(* rowid (payment_id) order.                                               *)
get_user_active_packs(db, user_id, now_iso) == SelectActive(db, user_id, now_iso, 1)

(* Mutant of fetchone: a default row instead of None for a missing record *)
fetchone_default(db, payment_id) ==
    IF Exists(db, payment_id)
    THEN [found |-> TRUE, chat_id |-> db[payment_id].chat_id,
          pack_type |-> db[payment_id].pack_type, status |-> db[payment_id].status,
          user_id |-> db[payment_id].user_id]
    ELSE [found |-> TRUE, chat_id |-> NoId, pack_type |-> None, status |-> None,
          user_id |-> NoId]

(* SELECT chat_id, pack_type, status, user_id FROM payments WHERE          *)
(* payment_id = ?, then fetchone(): the row, or None (found = FALSE).      *)
fetchone(db, payment_id) ==
    IF Exists(db, payment_id)
    THEN [found |-> TRUE, chat_id |-> db[payment_id].chat_id,
          pack_type |-> db[payment_id].pack_type, status |-> db[payment_id].status,
          user_id |-> db[payment_id].user_id]
    ELSE [found |-> FALSE, chat_id |-> NoId, pack_type |-> None, status |-> None,
          user_id |-> NoId]

----------------------------------------------------------------------------
(* The payment provider, as PaymentManager sees it *)

(* What sdk.payment().create() can do: raise, or return a dictionary with  *)
(* or without each of the keys the handler reads.                          *)
CreateShapes == {"raise", "no_response", "no_point_of_interaction",
                 "no_transaction_data", "complete"}

CreateResult(shape, id, qr_code) == [shape |-> shape, id |-> id, qr_code |-> qr_code]

(* Mutant of create_payment: nothing returned after the logging *)
create_payment_no_return(result) == CreateResult(None, NoId, None)

(* PaymentManager.create_payment: the provider's result, None (shape       *)
(* "None") if the call raised.                                             *)
create_payment(result) ==
    IF result.shape = "raise" THEN CreateResult(None, NoId, None) ELSE result

(* Mutant of ChargeCreated: `if payment_id:` without the pix_code *)
ChargeCreated_no_qr_check(payment) ==
    /\ payment.shape # None
    /\ payment.shape \notin {"no_response", "no_point_of_interaction"}
    /\ payment.id # NoId

(* The test `payment and payment.get('response') and                       *)
(* payment['response'].get('point_of_interaction')` followed by            *)
(* `pix_code and payment_id`.                                              *)
ChargeCreated(payment) ==
    /\ payment.shape # None
    /\ payment.shape \notin {"no_response", "no_point_of_interaction"}
    /\ payment.shape # "no_transaction_data"
    /\ payment.qr_code # None
    /\ payment.id # NoId

(* What sdk.payment().get() can do *)
GetShapes == {"raise", "no_response", "no_status", "status"}

GetResult(shape, status) == [shape |-> shape, status |-> status]

(* Mutant of check_payment_status: the status passed on without `if status` *)
check_payment_status_untested(result) ==
    IF result.shape = "status" THEN result.status ELSE None

(* Mutant of check_payment_status: a failed query answered as 'unknown' *)
check_payment_status_unknown(result) ==
    IF result.shape = "status" /\ result.status # "" THEN result.status ELSE "unknown"

(* PaymentManager.check_payment_status: response.status if truthy else None *)
check_payment_status(result) ==
    IF result.shape = "status" /\ result.status # "" THEN result.status ELSE None

----------------------------------------------------------------------------
(* Flows: one thread per handler or store call *)

NoLock == 0

Idle == [pc |-> "idle", payment_id |-> NoId, user_id |-> NoId, chat_id |-> NoId,
         pack_type |-> None, pix_code |-> None, status |-> None,
         current_status |-> None, now |-> NoTime, result |-> <<>>, outcome |-> None]

(* `with self.lock`: the statement a flow waits at, and the first          *)
(* statement inside the block.                                             *)
LockBody == [save_lock |-> "save_body", lookup_lock |-> "lookup_body",
             update_lock |-> "update_body", packs_lock |-> "packs_body",
             orm_save_lock |-> "orm_save_body", orm_update_lock |-> "orm_update_body",
             orm_packs_lock |-> "orm_packs_body", status_lock |-> "status_body",
             orm_active_lock |-> "orm_active_body",
             store_save_lock |-> "store_save_body",
             store_update_lock |-> "store_update_body"]

(* A finished handler keeps what it reported: the message and the id *)
Done(f, outcome) ==
    [Idle EXCEPT !.pc = "done", !.outcome = outcome, !.payment_id = flows[f].payment_id]

(* The message handle_payment_verification sends for a resolved status *)
VerificationMessage(status) ==
    IF status \in {"approved", "pending", "rejected", "cancelled"} THEN status ELSE "unknown"

(* The dispatcher hands an incoming update to the first free worker thread *)
Free(f) ==
    /\ flows[f].pc = "idle"
    /\ \A g \in Flows : g < f => flows[g].pc # "idle"

Init ==
    /\ payments = <<>>
    /\ clock = 0
    /\ lock = NoLock
    /\ flows = [f \in Flows |-> Idle]
    /\ issued = {}
    /\ store \in StoreKinds

(* datetime.now() moves on between any two steps *)
Tick ==
    /\ \E t \in ClockValues : t > clock /\ clock' = t
    /\ UNCHANGED <<payments, lock, flows, issued, store>>

(* Mutant of Acquire: the block entered without waiting for the lock *)
Acquire_no_wait(f) ==
    /\ flows[f].pc \in DOMAIN LockBody
    /\ lock' = f
    /\ flows' = [flows EXCEPT ![f].pc = LockBody[flows[f].pc]]
    /\ UNCHANGED <<payments, clock, issued, store>>

(* `with self.lock` entered: threading.Lock.acquire *)
Acquire(f) ==
    /\ flows[f].pc \in DOMAIN LockBody
    /\ lock = NoLock
    /\ lock' = f
    /\ flows' = [flows EXCEPT ![f].pc = LockBody[flows[f].pc]]
    /\ UNCHANGED <<payments, clock, issued, store>>

(* The handler returned; the thread serves the next update *)
Return(f) ==
    /\ flows[f].pc = "done"
    /\ flows' = [flows EXCEPT ![f] = Idle]
    /\ UNCHANGED <<payments, clock, lock, issued, store>>

----------------------------------------------------------------------------
(* bot.py: TelegramBotHandler over the sqlite3 DatabaseManager *)

(* What the provider can answer to a create call: ids are assigned by the  *)
(* provider and never reused.                                              *)
CreateResults ==
    {CreateResult(shape, NoId, None) : shape \in CreateShapes \ {"complete"}}
    \cup {CreateResult("complete", id, PixCode(id)) : id \in (PaymentIds \ issued) \cup {NoId}}
    \cup {CreateResult("complete", id, None) : id \in (PaymentIds \ issued) \cup {NoId}}

GetResults ==
    {GetResult(shape, None) : shape \in GetShapes \ {"status"}}
    \cup {GetResult("status", status) : status \in ProviderStatuses \cup {""}}

(* Users and chats are interchangeable until the first charge exists, so   *)
(* the purchase that can create it is taken to come from user 1 in chat 1; *)
(* every later purchase comes from any user in any chat.                   *)
FirstPurchaser(user_id, chat_id) ==
    (issued = {} /\ DOMAIN payments = {}) => (user_id = 1 /\ chat_id = 1)

(* handle_callback "pack_basico" / "pack_premium": handle_pack_selection   *)
(* up to the blocking call of create_payment.                              *)
handle_pack_selection(f, user_id, chat_id, pack_type) ==
    /\ store = "sqlite3"
    /\ Free(f)
    /\ FirstPurchaser(user_id, chat_id)
    /\ flows' = [flows EXCEPT ![f] = [Idle EXCEPT !.pc = "create_payment",
                     !.user_id = user_id, !.chat_id = chat_id, !.pack_type = pack_type]]
    /\ UNCHANGED <<payments, clock, lock, issued, store>>

(* create_payment returned `result`; the handler tests it and either calls *)
(* save_payment, whose first statement reads the clock, or reports the     *)
(* failure.                                                                *)
PackSelectionCreated(f, result) ==
    /\ flows[f].pc = "create_payment"
    /\ result \in CreateResults
    /\ issued' = IF result.id # NoId THEN issued \cup {result.id} ELSE issued
    /\ LET payment == create_payment(result) IN
        flows' = [flows EXCEPT ![f] =
            IF ChargeCreated(payment)
            THEN [@ EXCEPT !.pc = "save_lock", !.payment_id = payment.id,
                          !.pix_code = payment.qr_code, !.pack_type = lower(flows[f].pack_type),
                          !.status = "pending", !.now = clock]
            ELSE Done(f, "create_failed")]
    /\ UNCHANGED <<payments, clock, lock, store>>

(* save_payment inside the lock: INSERT OR REPLACE, commit, release; the   *)
(* handler then sends the PIX code and the verify button.                  *)
SavePaymentBody(f) ==
    /\ flows[f].pc = "save_body"
    /\ lock = f
    /\ payments' = save_payment(payments, flows[f].payment_id, flows[f].user_id,
                                username(flows[f].user_id), flows[f].chat_id,
                                flows[f].pack_type, flows[f].pix_code,
                                flows[f].status, flows[f].now)
    /\ lock' = NoLock
    /\ flows' = [flows EXCEPT ![f] = Done(f, "pix_sent")]
    /\ UNCHANGED <<clock, issued, store>>

(* handle_callback "verify_<id>": handle_payment_verification up to its    *)
(* `with self.db_manager.lock`.                                            *)
handle_payment_verification(f, payment_id, user_id, chat_id) ==
    /\ store = "sqlite3"
    /\ Free(f)
    /\ flows' = [flows EXCEPT ![f] = [Idle EXCEPT !.pc = "lookup_lock",
                     !.payment_id = payment_id, !.user_id = user_id, !.chat_id = chat_id]]
    /\ UNCHANGED <<payments, clock, lock, issued, store>>

(* Mutant of Denied: `and` for `or` *)
Denied_and(payment_data, user_id, chat_id) ==
    payment_data.chat_id # chat_id /\ payment_data.user_id # user_id

(* Mutant of Denied: only the chat is compared *)
Denied_chat_only(payment_data, user_id, chat_id) == payment_data.chat_id # chat_id

(* The access check of handle_payment_verification on the fetched row *)
Denied(payment_data, user_id, chat_id) ==
    payment_data.chat_id # chat_id \/ payment_data.user_id # user_id

(* Mutant of VerificationLookup: the `with` block extended over the call   *)
(* of check_payment_status                                                 *)
VerificationLookup_holds_lock(f) ==
    /\ flows[f].pc = "lookup_body"
    /\ lock = f
    /\ LET payment_data == fetchone(payments, flows[f].payment_id) IN
        /\ lock' = IF payment_data.found
                      /\ ~Denied(payment_data, flows[f].user_id, flows[f].chat_id)
                   THEN f ELSE NoLock
        /\ flows' = [flows EXCEPT ![f] =
            IF ~payment_data.found THEN Done(f, "not_found")
            ELSE IF Denied(payment_data, flows[f].user_id, flows[f].chat_id)
            THEN [Done(f, "denied") EXCEPT !.user_id = flows[f].user_id,
                                            !.chat_id = flows[f].chat_id]
            ELSE [@ EXCEPT !.pc = "check_payment_status",
                          !.current_status = payment_data.status]]
    /\ UNCHANGED <<payments, clock, issued, store>>

(* The lookup inside the lock, then, outside it, the not-found and the     *)
(* permission tests, up to the blocking call of check_payment_status.      *)
VerificationLookup(f) ==
    /\ flows[f].pc = "lookup_body"
    /\ lock = f
    /\ lock' = NoLock
    /\ LET payment_data == fetchone(payments, flows[f].payment_id) IN
        flows' = [flows EXCEPT ![f] =
            IF ~payment_data.found THEN Done(f, "not_found")
            ELSE IF Denied(payment_data, flows[f].user_id, flows[f].chat_id)
            THEN [Done(f, "denied") EXCEPT !.user_id = flows[f].user_id,
                                            !.chat_id = flows[f].chat_id]
            ELSE [@ EXCEPT !.pc = "check_payment_status",
                          !.current_status = payment_data.status]]
    /\ UNCHANGED <<payments, clock, issued, store>>

(* Mutant of NeedsUpdate: `if status:` *)
NeedsUpdate_always(status, current_status) == status # None

(* `if status and status != current_status` *)
NeedsUpdate(status, current_status) == status # None /\ status # current_status

(* check_payment_status returned; the handler updates the record if the    *)
(* status is new, and otherwise goes on to the message.                    *)
VerificationStatus(f, result) ==
    /\ flows[f].pc = "check_payment_status"
    /\ result \in GetResults
    /\ LET status == check_payment_status(result) IN
        flows' = [flows EXCEPT ![f] =
            IF NeedsUpdate(status, flows[f].current_status)
            THEN [@ EXCEPT !.pc = "update_lock", !.status = status,
                          !.current_status = None]
            ELSE [Done(f, VerificationMessage(status)) EXCEPT !.status = status]]
    /\ UNCHANGED <<payments, clock, lock, issued, store>>

(* update_payment_status inside the lock: one datetime.now(), one UPDATE,  *)
(* commit, release; the handler then sends the message for the status.     *)
UpdateStatusBody(f) ==
    /\ flows[f].pc = "update_body"
    /\ lock = f
    /\ payments' = update_payment_status(payments, flows[f].payment_id,
                                         flows[f].status, clock)
    /\ lock' = NoLock
    /\ flows' = [flows EXCEPT ![f] =
            [Done(f, VerificationMessage(flows[f].status)) EXCEPT !.status = flows[f].status]]
    /\ UNCHANGED <<clock, issued, store>>

(* /start: cmd_start calls get_user_active_packs, which reads the clock    *)
(* before it takes the lock.                                               *)
cmd_start(f, user_id) ==
    /\ store = "sqlite3"
    /\ Free(f)
    /\ flows' = [flows EXCEPT ![f] = [Idle EXCEPT !.pc = "packs_lock",
                     !.user_id = user_id, !.now = clock]]
    /\ UNCHANGED <<payments, clock, lock, issued, store>>

(* The SELECT of get_user_active_packs inside the lock; the welcome        *)
(* message lists the result.                                               *)
ActivePacksBody(f) ==
    /\ flows[f].pc = "packs_body"
    /\ lock = f
    /\ lock' = NoLock
    /\ flows' = [flows EXCEPT ![f] =
            [Done(f, "welcome") EXCEPT !.user_id = flows[f].user_id,
                !.now = flows[f].now, !.result = get_user_active_packs(payments, flows[f].user_id,
                                                        flows[f].now)]]
    /\ UNCHANGED <<payments, clock, issued, store>>

(* ADMIN_IDS of the environment: user 1 administers the bot *)
ADMIN_IDS == {1}

(* `if not ADMIN_IDS or user_id not in ADMIN_IDS` *)
NotAdmin(user_id) == ADMIN_IDS = {} \/ user_id \notin ADMIN_IDS

RECURSIVE SelectPending(_, _)
(* SELECT payment_id, user_id, username, pack_type, created_at FROM        *)
(* payments WHERE status = 'pending'                                       *)
SelectPending(db, p) ==
    IF p > MaxRecords THEN <<>>
    ELSE (IF Exists(db, p) /\ db[p].status = "pending"
          THEN << <<p, db[p].user_id, db[p].username, db[p].pack_type, db[p].created_at>> >>
          ELSE <<>>) \o SelectPending(db, p + 1)

RECURSIVE SelectApproved(_, _, _)
(* SELECT payment_id, user_id, username, pack_type, approved_at,           *)
(* expires_at FROM payments WHERE status = 'approved' AND expires_at > ?   *)
SelectApproved(db, now_iso, p) ==
    IF p > MaxRecords THEN <<>>
    ELSE (IF /\ Exists(db, p)
             /\ db[p].status = "approved"
             /\ db[p].expires_at # NoTime
             /\ db[p].expires_at > now_iso
          THEN << <<p, db[p].user_id, db[p].username, db[p].pack_type,
                    db[p].approved_at, db[p].expires_at>> >>
          ELSE <<>>) \o SelectApproved(db, now_iso, p + 1)

(* /status: cmd_status up to its `with self.db_manager.lock`; anyone but   *)
(* an administrator is told so and nothing is read.                        *)
cmd_status(f, user_id) ==
    /\ store = "sqlite3"
    /\ Free(f)
    /\ flows' = [flows EXCEPT ![f] =
            IF NotAdmin(user_id) THEN Done(f, "no_permission")
            ELSE [Idle EXCEPT !.pc = "status_lock", !.user_id = user_id]]
    /\ UNCHANGED <<payments, clock, lock, issued, store>>

(* The two SELECTs of cmd_status inside the lock, the clock read between   *)
(* them; the listing is sent to the administrator.                         *)
StatusBody(f) ==
    /\ flows[f].pc = "status_body"
    /\ lock = f
    /\ lock' = NoLock
    /\ flows' = [flows EXCEPT ![f] =
            [Done(f, "status_list") EXCEPT
                !.result = <<SelectPending(payments, 1), SelectApproved(payments, clock, 1)>>]]
    /\ UNCHANGED <<payments, clock, issued, store>>

----------------------------------------------------------------------------
(* database_manager.py: the SQLAlchemy DatabaseManager, called directly *)

(* db.add(Payment(...)); db.commit(): the row with the column defaults     *)
(* status = 'pending', created_at = utcnow(), approved_at = expires_at =   *)
(* NULL.  The caller has checked that the primary key is free (a taken key *)
(* makes commit raise IntegrityError and nothing is written).              *)
orm_save_payment(db, payment_id, user_id, name, chat_id, pack_type, pix_code, utcnow) ==
    IF Exists(db, payment_id) THEN db
    ELSE [p \in (DOMAIN db) \cup {payment_id} |->
            IF p = payment_id
            THEN Row(user_id, name, chat_id, pack_type, "pending", pix_code, utcnow,
                     NoTime, NoTime)
            ELSE db[p]]

(* Mutant of orm_update_payment_status: committed before expires_at is set *)
orm_update_payment_status_no_expiry(db, payment_id, status, utcnow1, utcnow2) ==
    [p \in DOMAIN db |->
        IF p # payment_id THEN db[p]
        ELSE IF status = "approved"
        THEN [db[p] EXCEPT !.status = status, !.approved_at = utcnow1]
        ELSE [db[p] EXCEPT !.status = status]]

(* payment.status = status; if approved: payment.approved_at = utcnow(),   *)
(* payment.expires_at = utcnow() + timedelta(days=30); db.commit().        *)
(* utcnow1 and utcnow2 are the two readings of the clock.                  *)
orm_update_payment_status(db, payment_id, status, utcnow1, utcnow2) ==
    [p \in DOMAIN db |->
        IF p # payment_id THEN db[p]
        ELSE IF status = "approved"
        THEN [db[p] EXCEPT !.status = status, !.approved_at = utcnow1,
                           !.expires_at = utcnow2 + ThirtyDays]
        ELSE [db[p] EXCEPT !.status = status]]

(* The filter of the query in get_user_active_packs *)
OrmIsActiveFor(row, user_id, now) ==
    /\ row.user_id = user_id
    /\ row.status = "approved"
    /\ row.expires_at # NoTime
    /\ row.expires_at > now

RECURSIVE OrmSelectActive(_, _, _, _)
OrmSelectActive(db, user_id, now, p) ==
    IF p > MaxRecords THEN <<>>
    ELSE (IF Exists(db, p) /\ OrmIsActiveFor(db[p], user_id, now)
          THEN << <<db[p].pack_type, db[p].expires_at>> >>
          ELSE <<>>) \o OrmSelectActive(db, user_id, now, p + 1)

(* [(pack.pack_type, pack.expires_at) for pack in packs] *)
orm_get_user_active_packs(db, user_id, now) == OrmSelectActive(db, user_id, now, 1)

(* A client calls save_payment *)
OrmSavePayment(f, payment_id, user_id, chat_id, pack_type) ==
    /\ store = "sqlalchemy"
    /\ Free(f)
    /\ FirstPurchaser(user_id, chat_id)
    /\ flows' = [flows EXCEPT ![f] = [Idle EXCEPT !.pc = "orm_save_lock",
                     !.payment_id = payment_id, !.user_id = user_id, !.chat_id = chat_id,
                     !.pack_type = lower(pack_type), !.pix_code = PixCode(payment_id)]]
    /\ UNCHANGED <<payments, clock, lock, issued, store>>

(* Mutant of OrmSavePaymentBody: the lock taken with acquire() and not     *)
(* released when commit raises                                             *)
OrmSavePaymentBody_keeps_lock(f) ==
    /\ flows[f].pc = "orm_save_body"
    /\ lock = f
    /\ lock' = IF Exists(payments, flows[f].payment_id) THEN f ELSE NoLock
    /\ payments' = orm_save_payment(payments, flows[f].payment_id, flows[f].user_id,
                                    username(flows[f].user_id), flows[f].chat_id,
                                    flows[f].pack_type, flows[f].pix_code, clock)
    /\ flows' = [flows EXCEPT ![f] =
            IF Exists(payments, flows[f].payment_id)
            THEN Done(f, "IntegrityError") ELSE Done(f, "saved")]
    /\ UNCHANGED <<clock, issued, store>>

(* save_payment inside the lock; a duplicate primary key raises out of the *)
(* `with` block, which releases the lock.                                  *)
OrmSavePaymentBody(f) ==
    /\ flows[f].pc = "orm_save_body"
    /\ lock = f
    /\ lock' = NoLock
    /\ payments' = orm_save_payment(payments, flows[f].payment_id, flows[f].user_id,
                                    username(flows[f].user_id), flows[f].chat_id,
                                    flows[f].pack_type, flows[f].pix_code, clock)
    /\ flows' = [flows EXCEPT ![f] =
            IF Exists(payments, flows[f].payment_id)
            THEN Done(f, "IntegrityError") ELSE Done(f, "saved")]
    /\ UNCHANGED <<clock, issued, store>>

(* A client calls update_payment_status *)
OrmUpdatePaymentStatus(f, payment_id, status) ==
    /\ store = "sqlalchemy"
    /\ Free(f)
    /\ flows' = [flows EXCEPT ![f] = [Idle EXCEPT !.pc = "orm_update_lock",
                     !.payment_id = payment_id, !.status = status]]
    /\ UNCHANGED <<payments, clock, lock, issued, store>>

(* Inside the lock: the query, `if payment:`, the assignment of status     *)
(* and, for approved, of approved_at = utcnow().  Any other status is      *)
(* committed at once.                                                      *)
OrmUpdateQuery(f) ==
    /\ flows[f].pc = "orm_update_body"
    /\ lock = f
    /\ IF ~Exists(payments, flows[f].payment_id)
       THEN /\ flows' = [flows EXCEPT ![f] = Done(f, "no_row")]
            /\ lock' = NoLock
            /\ UNCHANGED payments
       ELSE IF flows[f].status = "approved"
       THEN /\ flows' = [flows EXCEPT ![f].pc = "orm_update_commit", ![f].now = clock]
            /\ UNCHANGED <<lock, payments>>
       ELSE /\ payments' = orm_update_payment_status(payments, flows[f].payment_id,
                                                     flows[f].status, clock, clock)
            /\ flows' = [flows EXCEPT ![f] =
                    [Done(f, "updated") EXCEPT !.status = flows[f].status]]
            /\ lock' = NoLock
    /\ UNCHANGED <<clock, issued, store>>

(* expires_at = utcnow() + timedelta(days=30), commit, close, release *)
OrmUpdateCommit(f) ==
    /\ flows[f].pc = "orm_update_commit"
    /\ lock = f
    /\ payments' = orm_update_payment_status(payments, flows[f].payment_id,
                                             flows[f].status, flows[f].now, clock)
    /\ flows' = [flows EXCEPT ![f] =
            [Done(f, "updated") EXCEPT !.status = flows[f].status]]
    /\ lock' = NoLock
    /\ UNCHANGED <<clock, issued, store>>

(* A client calls get_user_active_packs *)
OrmGetUserActivePacks(f, user_id) ==
    /\ store = "sqlalchemy"
    /\ Free(f)
    /\ flows' = [flows EXCEPT ![f] = [Idle EXCEPT !.pc = "orm_packs_lock",
                     !.user_id = user_id]]
    /\ UNCHANGED <<payments, clock, lock, issued, store>>

(* Inside the lock: now = utcnow(), the query, the list of pairs *)
OrmActivePacksBody(f) ==
    /\ flows[f].pc = "orm_packs_body"
    /\ lock = f
    /\ lock' = NoLock
    /\ flows' = [flows EXCEPT ![f] =
            [Done(f, "packs") EXCEPT !.user_id = flows[f].user_id, !.now = clock,
                !.result = orm_get_user_active_packs(payments, flows[f].user_id, clock)]]
    /\ UNCHANGED <<payments, clock, issued, store>>

RECURSIVE OrmSelectAllActive(_, _, _)
OrmSelectAllActive(db, now, p) ==
    IF p > MaxRecords THEN <<>>
    ELSE (IF /\ Exists(db, p)
             /\ db[p].status = "approved"
             /\ db[p].expires_at # NoTime
             /\ db[p].expires_at > now
          THEN << <<p, db[p].username, db[p].pack_type, db[p].expires_at>> >>
          ELSE <<>>) \o OrmSelectAllActive(db, now, p + 1)

(* [(p.payment_id, p.username, p.pack_type, p.expires_at) for p in ...] *)
orm_get_all_active_payments(db, now) == OrmSelectAllActive(db, now, 1)

(* The dashboard calls get_all_active_payments *)
OrmGetAllActivePayments(f) ==
    /\ store = "sqlalchemy"
    /\ Free(f)
    /\ flows' = [flows EXCEPT ![f] = [Idle EXCEPT !.pc = "orm_active_lock"]]
    /\ UNCHANGED <<payments, clock, lock, issued, store>>

(* Inside the lock: now = utcnow(), the query, the list of tuples *)
OrmAllActiveBody(f) ==
    /\ flows[f].pc = "orm_active_body"
    /\ lock = f
    /\ lock' = NoLock
    /\ flows' = [flows EXCEPT ![f] =
            [Done(f, "active_payments") EXCEPT
                !.result = orm_get_all_active_payments(payments, clock)]]
    /\ UNCHANGED <<payments, clock, issued, store>>

Next ==
    \/ Tick
    \/ \E f \in Flows : Acquire(f)
    \/ \E f \in Flows : Return(f)
    \/ \E f \in Flows, u \in Users, c \in Chats, k \in PackTypes :
          handle_pack_selection(f, u, c, k)
    \/ \E f \in Flows, r \in CreateResults : PackSelectionCreated(f, r)
    \/ \E f \in Flows : SavePaymentBody(f)
    \/ \E f \in Flows, p \in PaymentIds, u \in Users, c \in Chats :
          handle_payment_verification(f, p, u, c)
    \/ \E f \in Flows : VerificationLookup(f)
    \/ \E f \in Flows, r \in GetResults : VerificationStatus(f, r)
    \/ \E f \in Flows : UpdateStatusBody(f)
    \/ \E f \in Flows, u \in Users : cmd_start(f, u)
    \/ \E f \in Flows : ActivePacksBody(f)
    \/ \E f \in Flows, u \in Users : cmd_status(f, u)
    \/ \E f \in Flows : StatusBody(f)
    \/ \E f \in Flows, p \in PaymentIds, u \in Users, c \in Chats, k \in PackTypes :
          OrmSavePayment(f, p, u, c, k)
    \/ \E f \in Flows : OrmSavePaymentBody(f)
    \/ \E f \in Flows, p \in PaymentIds, st \in ProviderStatuses :
          OrmUpdatePaymentStatus(f, p, st)
    \/ \E f \in Flows : OrmUpdateQuery(f)
    \/ \E f \in Flows : OrmUpdateCommit(f)
    \/ \E f \in Flows, u \in Users : OrmGetUserActivePacks(f, u)
    \/ \E f \in Flows : OrmActivePacksBody(f)
    \/ \E f \in Flows : OrmGetAllActivePayments(f)
    \/ \E f \in Flows : OrmAllActiveBody(f)

Spec == Init /\ [][Next]_vars

----------------------------------------------------------------------------
(* Verifications of a charge that exists.  The store holds the record of   *)
(* one completed purchase (payment 1, user 1, chat 1, day 0); each thread  *)
(* runs one verification of it, or one update_payment_status call on it.   *)

InitPurchased ==
    /\ \E k \in PackTypes :
          payments = save_payment(<<>>, 1, 1, username(1), 1, lower(k), PixCode(1),
                                  "pending", 0)
    /\ clock = 0
    /\ lock = NoLock
    /\ flows = [f \in Flows |-> Idle]
    /\ issued = {1}
    /\ store \in StoreKinds

NextRace ==
    \/ Tick
    \/ \E f \in Flows : Acquire(f)
    \/ \E f \in Flows, u \in Users, c \in Chats : handle_payment_verification(f, 1, u, c)
    \/ \E f \in Flows : VerificationLookup(f)
    \/ \E f \in Flows, r \in GetResults : VerificationStatus(f, r)
    \/ \E f \in Flows : UpdateStatusBody(f)
    \/ \E f \in Flows, st \in ProviderStatuses : OrmUpdatePaymentStatus(f, 1, st)
    \/ \E f \in Flows : OrmUpdateQuery(f)
    \/ \E f \in Flows : OrmUpdateCommit(f)

SpecRace == InitPurchased /\ [][NextRace]_vars

(* No handler starts while another one runs *)
Quiet == \A g \in Flows : flows[g].pc \in {"idle", "done"}

InitSeq == InitPurchased /\ store = "sqlite3"

NextSeq ==
    \/ Tick
    \/ \E f \in Flows : Acquire(f)
    \/ \E f \in Flows, u \in Users, c \in Chats :
          Quiet /\ handle_payment_verification(f, 1, u, c)
    \/ \E f \in Flows : VerificationLookup(f)
    \/ \E f \in Flows, r \in GetResults : VerificationStatus(f, r)
    \/ \E f \in Flows : UpdateStatusBody(f)

SpecSeq == InitSeq /\ [][NextSeq]_vars

----------------------------------------------------------------------------
(* save_payment on a payment_id that may have a record already.  The store *)
(* holds the record of one completed purchase; each thread runs one        *)
(* verification or update of it, or one save_payment call of either store. *)

(* PIX codes a caller can pass: the one stored, and that of a new charge *)
PixCodes == {PixCode(id) : id \in PaymentIds \cup {NoId}}

(* A caller of bot.py's DatabaseManager.save_payment: the default status   *)
(* 'pending', and datetime.now() read before the lock is taken.            *)
StoreSavePayment(f, payment_id, user_id, chat_id, pack_type, pix_code) ==
    /\ store = "sqlite3"
    /\ Free(f)
    /\ flows' = [flows EXCEPT ![f] = [Idle EXCEPT !.pc = "store_save_lock",
                     !.payment_id = payment_id, !.user_id = user_id, !.chat_id = chat_id,
                     !.pack_type = lower(pack_type), !.pix_code = pix_code,
                     !.status = "pending", !.now = clock]]
    /\ UNCHANGED <<payments, clock, lock, issued, store>>

(* INSERT OR REPLACE, commit, release; the call returns None *)
StoreSavePaymentBody(f) ==
    /\ flows[f].pc = "store_save_body"
    /\ lock = f
    /\ payments' = save_payment(payments, flows[f].payment_id, flows[f].user_id,
                                username(flows[f].user_id), flows[f].chat_id,
                                flows[f].pack_type, flows[f].pix_code,
                                flows[f].status, flows[f].now)
    /\ lock' = NoLock
    /\ flows' = [flows EXCEPT ![f] = Done(f, "saved")]
    /\ UNCHANGED <<clock, issued, store>>

NextSave ==
    \/ Tick
    \/ \E f \in Flows : Acquire(f)
    \/ \E f \in Flows, p \in PaymentIds, u \in Users, k \in PackTypes, x \in PixCodes :
          StoreSavePayment(f, p, u, u, k, x)
    \/ \E f \in Flows : StoreSavePaymentBody(f)
    \/ \E f \in Flows : handle_payment_verification(f, 1, 1, 1)
    \/ \E f \in Flows : VerificationLookup(f)
    \/ \E f \in Flows, r \in GetResults : VerificationStatus(f, r)
    \/ \E f \in Flows : UpdateStatusBody(f)
    \/ \E f \in Flows, p \in PaymentIds, u \in Users, k \in PackTypes :
          OrmSavePayment(f, p, u, u, k)
    \/ \E f \in Flows : OrmSavePaymentBody(f)
    \/ \E f \in Flows, st \in ProviderStatuses : OrmUpdatePaymentStatus(f, 1, st)
    \/ \E f \in Flows : OrmUpdateQuery(f)
    \/ \E f \in Flows : OrmUpdateCommit(f)

SpecSave == InitPurchased /\ [][NextSave]_vars

----------------------------------------------------------------------------
(* The bot restarted over a table that holds a record already: charge      *)
(* OldId of user 1 in chat 1, created on day 0 and either still pending or *)
(* approved that day.  Each thread runs one handler or store call: a       *)
(* purchase, which creates a new charge next to it, or a verification or   *)
(* an update of any record.                                                *)

(* A caller of bot.py's DatabaseManager.update_payment_status *)
StoreUpdatePaymentStatus(f, payment_id, status) ==
    /\ store = "sqlite3"
    /\ Free(f)
    /\ flows' = [flows EXCEPT ![f] = [Idle EXCEPT !.pc = "store_update_lock",
                     !.payment_id = payment_id, !.status = status]]
    /\ UNCHANGED <<payments, clock, lock, issued, store>>

(* One datetime.now(), one UPDATE (which changes no row if none has the    *)
(* payment_id), commit, release; the call returns None.                    *)
StoreUpdatePaymentStatusBody(f) ==
    /\ flows[f].pc = "store_update_body"
    /\ lock = f
    /\ payments' = update_payment_status(payments, flows[f].payment_id,
                                         flows[f].status, clock)
    /\ lock' = NoLock
    /\ flows' = [flows EXCEPT ![f] =
            [Done(f, "updated") EXCEPT !.status = flows[f].status]]
    /\ UNCHANGED <<clock, issued, store>>

InitOld ==
    /\ \E k \in PackTypes, approved \in BOOLEAN :
          payments = [p \in {OldId} |->
              IF approved
              THEN Row(1, username(1), 1, lower(k), "approved", PixCode(OldId), 0, 0, ThirtyDays)
              ELSE Row(1, username(1), 1, lower(k), "pending", PixCode(OldId), 0, NoTime, NoTime)]
    /\ clock = 0
    /\ lock = NoLock
    /\ flows = [f \in Flows |-> Idle]
    /\ issued = {}
    /\ store \in StoreKinds

NextOld ==
    \/ Tick
    \/ \E f \in Flows : Acquire(f)
    \/ \E f \in Flows, u \in Users, c \in Chats, k \in PackTypes :
          handle_pack_selection(f, u, c, k)
    \/ \E f \in Flows, r \in CreateResults : PackSelectionCreated(f, r)
    \/ \E f \in Flows : SavePaymentBody(f)
    \/ \E f \in Flows, p \in RowIds, u \in Users, c \in Chats :
          handle_payment_verification(f, p, u, c)
    \/ \E f \in Flows : VerificationLookup(f)
    \/ \E f \in Flows, r \in GetResults : VerificationStatus(f, r)
    \/ \E f \in Flows : UpdateStatusBody(f)
    \/ \E f \in Flows, p \in PaymentIds, u \in Users, c \in Chats, k \in PackTypes :
          OrmSavePayment(f, p, u, c, k)
    \/ \E f \in Flows : OrmSavePaymentBody(f)
    \/ \E f \in Flows, p \in RowIds, st \in ProviderStatuses :
          OrmUpdatePaymentStatus(f, p, st)
    \/ \E f \in Flows : OrmUpdateQuery(f)
    \/ \E f \in Flows : OrmUpdateCommit(f)
    \/ \E f \in Flows, p \in RowIds, st \in ProviderStatuses :
          StoreUpdatePaymentStatus(f, p, st)
    \/ \E f \in Flows : StoreUpdatePaymentStatusBody(f)

SpecOld == InitOld /\ [][NextOld]_vars

----------------------------------------------------------------------------
(* Racing verifications whose provider queries are answered in the order   *)
(* of the threads: thread f gets its answer only after every thread before *)
(* it has got its own.  The writes that follow are not ordered.            *)

(* Every thread before f has the provider's answer *)
AnsweredBefore(f) ==
    \A g \in Flows : g < f => flows[g].pc \in {"update_lock", "update_body", "done"}

NextStale ==
    \/ Tick
    \/ \E f \in Flows : Acquire(f)
    \/ \E f \in Flows : handle_payment_verification(f, 1, 1, 1)
    \/ \E f \in Flows : VerificationLookup(f)
    \/ \E f \in Flows, r \in GetResults : AnsweredBefore(f) /\ VerificationStatus(f, r)
    \/ \E f \in Flows : UpdateStatusBody(f)

SpecStale == InitSeq /\ [][NextStale]_vars

----------------------------------------------------------------------------
(* Fair scheduling.  Handlers and store calls arrive as in Spec, at one     *)
(* instant of the clock; a thread that can run is eventually run, a call   *)
(* to the provider eventually returns or raises, and a thread that waits   *)
(* for the lock is not passed over forever.                                *)

(* The steps of thread f after its handler has started, but for taking the *)
(* lock                                                                    *)
Proceed(f) ==
    \/ \E r \in CreateResults : PackSelectionCreated(f, r)
    \/ SavePaymentBody(f)
    \/ VerificationLookup(f)
    \/ \E r \in GetResults : VerificationStatus(f, r)
    \/ UpdateStatusBody(f)
    \/ ActivePacksBody(f)
    \/ StatusBody(f)
    \/ OrmSavePaymentBody(f)
    \/ OrmUpdateQuery(f)
    \/ OrmUpdateCommit(f)
    \/ OrmActivePacksBody(f)
    \/ OrmAllActiveBody(f)
    \/ Return(f)

NextFair ==
    \/ \E f \in Flows : Acquire(f)
    \/ \E f \in Flows : Proceed(f)
    \/ \E f \in Flows, k \in PackTypes : handle_pack_selection(f, 1, 1, k)
    \/ \E f \in Flows, p \in PaymentIds : handle_payment_verification(f, p, 1, 1)
    \/ \E f \in Flows : cmd_start(f, 1)
    \/ \E f \in Flows : cmd_status(f, 1)
    \/ \E f \in Flows, p \in PaymentIds, k \in PackTypes : OrmSavePayment(f, p, 1, 1, k)
    \/ \E f \in Flows, p \in PaymentIds, st \in ProviderStatuses :
          OrmUpdatePaymentStatus(f, p, st)
    \/ \E f \in Flows : OrmGetUserActivePacks(f, 1)
    \/ \E f \in Flows : OrmGetAllActivePayments(f)

Fairness == \A f \in Flows : SF_vars(Acquire(f)) /\ WF_vars(Proceed(f))

SpecFair == Init /\ [][NextFair]_vars /\ Fairness

----------------------------------------------------------------------------
(* get_user_active_packs over the tables purchases and verifications leave *)
(* behind: every payment_id has no record, or a record of some user that   *)
(* is pending, approved on day 0, or rejected after it was approved.       *)

StoredRows ==
    {Row(u, username(u), u, lower(k), "pending", "pix", 0, NoTime, NoTime) :
        u \in Users, k \in PackTypes}
    \cup {Row(u, username(u), u, lower(k), st, "pix", 0, 0, ThirtyDays) :
        u \in Users, k \in PackTypes, st \in {"approved", "rejected"}}

InitPacks ==
    /\ \E ids \in SUBSET RowIds : payments \in [ids -> StoredRows]
    /\ clock = 0
    /\ lock = NoLock
    /\ flows = [f \in Flows |-> Idle]
    /\ issued = {}
    /\ store \in StoreKinds

NextPacks ==
    \/ Tick
    \/ \E f \in Flows : Acquire(f)
    \/ \E f \in Flows : Return(f)
    \/ \E f \in Flows, u \in Users : cmd_start(f, u)
    \/ \E f \in Flows : ActivePacksBody(f)
    \/ \E f \in Flows, u \in Users : OrmGetUserActivePacks(f, u)
    \/ \E f \in Flows : OrmActivePacksBody(f)

SpecPacks == InitPacks /\ [][NextPacks]_vars

----------------------------------------------------------------------------
(* payment_manager.py and tests/test_payments.py: PaymentManager over an   *)
(* SDK whose answers are chosen by the test.  A finished call keeps the    *)
(* SDK's answer and the value the method returned.                         *)

(* payment_manager.create_payment(value, user_id) with an SDK that answers *)
(* `result`                                                                *)
CreatePaymentCall(f, result) ==
    /\ Free(f)
    /\ result \in CreateResults
    /\ flows' = [flows EXCEPT ![f] =
            [Idle EXCEPT !.pc = "done", !.outcome = "create_payment",
                         !.result = <<result, create_payment(result)>>]]
    /\ UNCHANGED <<payments, clock, lock, issued, store>>

(* payment_manager.check_payment_status(payment_id) with an SDK that       *)
(* answers `result`                                                        *)
CheckPaymentStatusCall(f, payment_id, result) ==
    /\ Free(f)
    /\ result \in GetResults
    /\ flows' = [flows EXCEPT ![f] =
            [Idle EXCEPT !.pc = "done", !.outcome = "check_payment_status",
                         !.payment_id = payment_id,
                         !.result = <<result, check_payment_status(result)>>]]
    /\ UNCHANGED <<payments, clock, lock, issued, store>>

NextGateway ==
    \/ \E f \in Flows : Return(f)
    \/ \E f \in Flows, r \in CreateResults : CreatePaymentCall(f, r)
    \/ \E f \in Flows, p \in PaymentIds, r \in GetResults : CheckPaymentStatusCall(f, p, r)

SpecGateway == Init /\ [][NextGateway]_vars

----------------------------------------------------------------------------
(* Properties *)

(* Flow f took a step that ended its handler *)
Finishes(f) == flows[f].pc # "done" /\ flows'[f].pc = "done"

(* C1: a verification of an existing payment whose stored user_id or       *)
(* chat_id differs from the requester's is denied: the lookup is its last  *)
(* step (the provider is never called) and the table is left as it was.    *)
C1_DeniedNoEffect ==
    [][\A f \in Flows :
          (/\ flows[f].pc = "lookup_body"
           /\ flows'[f] # flows[f]
           /\ Exists(payments, flows[f].payment_id)
           /\ \/ payments[flows[f].payment_id].user_id # flows[f].user_id
              \/ payments[flows[f].payment_id].chat_id # flows[f].chat_id)
          => (/\ flows'[f].pc = "done"
              /\ flows'[f].outcome = "denied"
              /\ payments' = payments)]_vars

(* Two denied verifications at once: wrong user in the right chat, and the *)
(* right user in a wrong chat.                                             *)
C1_Witness ==
    \E f, g \in Flows, p \in DOMAIN payments :
        /\ flows[f].pc = "done" /\ flows[f].outcome = "denied" /\ flows[f].payment_id = p
        /\ flows[f].user_id # payments[p].user_id /\ flows[f].chat_id = payments[p].chat_id
        /\ flows[g].pc = "done" /\ flows[g].outcome = "denied" /\ flows[g].payment_id = p
        /\ flows[g].user_id = payments[p].user_id /\ flows[g].chat_id # payments[p].chat_id

(* A run that was told `approved` for payment p: an authorized             *)
(* verification, or an update_payment_status(p, 'approved') call.          *)
ApprovedRun(f, p) ==
    /\ flows[f].payment_id = p
    /\ flows[f].status = "approved"
    /\ flows[f].outcome \in {"approved", "updated"}

Coherent(row) == (row.approved_at = NoTime) <=> (row.expires_at = NoTime)

(* C2: verifications of the same pending record race, the provider reports *)
(* approved to each: when all have finished the record is approved, and in *)
(* every state approved_at is null exactly if expires_at is null.          *)
C2_RaceCoherent ==
    /\ \A p \in DOMAIN payments : Coherent(payments[p])
    /\ (\A f \in Flows : flows[f].pc = "done" /\ ApprovedRun(f, 1))
          => payments[1].status = "approved"

(* One racing approval has written, the other is about to write *)
C2_Witness ==
    \E f, g \in Flows :
        /\ flows[f].pc = "done" /\ ApprovedRun(f, 1)
        /\ flows[g].pc \in {"update_lock", "orm_update_lock"}
        /\ flows[g].payment_id = 1 /\ flows[g].status = "approved"
        /\ payments[1].status = "approved"
        /\ payments[1].approved_at # NoTime /\ payments[1].expires_at # NoTime

(* C3: approved_at and expires_at, once set, are never cleared or changed  *)
(* by a later operation of the bot.                                        *)
C3_TimestampsSetOnce ==
    [][\A p \in DOMAIN payments :
          (store = "sqlite3" /\ payments[p].approved_at # NoTime)
          => (/\ p \in DOMAIN payments'
              /\ payments'[p].approved_at = payments[p].approved_at
              /\ payments'[p].expires_at = payments[p].expires_at)]_vars

(* An authorized verification of p that has finished with status s from    *)
(* the provider (None if the query failed)                                 *)
Verified(g, p, s) ==
    /\ flows[g].pc = "done"
    /\ flows[g].payment_id = p
    /\ flows[g].outcome \notin {"not_found", "denied"}
    /\ flows[g].status = s

(* C4: verifications run one after the other; the step that ends a         *)
(* verification to which the provider reports the status it reported to    *)
(* the verifications before it leaves the table as it was.                 *)
C4_SecondVerificationNoWrite ==
    [][\A f \in Flows :
          (/\ flows[f].pc \in {"check_payment_status", "update_body"}
           /\ Finishes(f)
           /\ \E g \in Flows \ {f} : Verified(g, flows[f].payment_id, flows'[f].status)
           /\ \A h \in Flows \ {f} :
                 (flows[h].pc = "done" /\ flows[h].outcome \notin {"not_found", "denied"})
                 => Verified(h, flows[f].payment_id, flows'[f].status))
          => payments' = payments]_vars

(* Two finished verifications with `approved`, the second on a later day   *)
(* than the approval                                                       *)
C4_Witness ==
    \E f, g \in Flows :
        /\ f # g
        /\ Verified(f, 1, "approved") /\ Verified(g, 1, "approved")
        /\ payments[1].status = "approved"
        /\ payments[1].approved_at < clock

(* C5: when a purchase succeeds (the provider returned an id and a PIX     *)
(* code and the record was saved), the table holds a record for that id    *)
(* with status pending, the provider's PIX code, and both approval         *)
(* timestamps null.                                                        *)
C5_PurchasePersistsPending ==
    [][\A f \in Flows :
          (Finishes(f) /\ flows'[f].outcome \in {"pix_sent", "saved"})
          => (/\ flows[f].payment_id # NoId
              /\ Exists(payments', flows[f].payment_id)
              /\ LET row == payments'[flows[f].payment_id] IN
                    /\ row.status = "pending"
                    /\ row.pix_code # None
                    /\ row.pix_code = PixCode(flows[f].payment_id)
                    /\ row.approved_at = NoTime
                    /\ row.expires_at = NoTime)]_vars

C5_Witness ==
    \E f \in Flows :
        /\ flows[f].pc = "done" /\ flows[f].outcome = "pix_sent"
        /\ Exists(payments, flows[f].payment_id)
        /\ payments[flows[f].payment_id].status = "pending"
        /\ payments[flows[f].payment_id].pix_code = PixCode(flows[f].payment_id)

(* The failures of charge creation the claim lists *)
CreationFailed(result) ==
    \/ result.shape \in {"raise", "no_response", "no_point_of_interaction",
                         "no_transaction_data"}
    \/ result.qr_code = None
    \/ result.id = NoId

(* C6: when charge creation fails, the purchase ends with a failure and    *)
(* the table is left as it was.                                            *)
C6_CreationFailureNoRecord ==
    [][\A f \in Flows :
          (flows[f].pc = "create_payment" /\ flows'[f] # flows[f])
          => \A result \in CreateResults :
                (CreationFailed(result) /\ PackSelectionCreated(f, result))
                => (/\ flows'[f].pc = "done"
                    /\ flows'[f].outcome = "create_failed"
                    /\ payments' = payments)]_vars

(* A failed purchase next to an empty table, after the provider issued an  *)
(* id without a PIX code                                                   *)
C6_Witness ==
    \E f \in Flows :
        /\ flows[f].pc = "done" /\ flows[f].outcome = "create_failed"
        /\ issued # {}
        /\ DOMAIN payments = {}

(* C7: a verification of a payment_id that has no record ends not-found at *)
(* the lookup (the provider is never called) and writes nothing.           *)
C7_NotFoundNoWrite ==
    [][\A f \in Flows :
          (/\ flows[f].pc = "lookup_body"
           /\ flows'[f] # flows[f]
           /\ ~Exists(payments, flows[f].payment_id))
          => (/\ flows'[f].pc = "done"
              /\ flows'[f].outcome = "not_found"
              /\ payments' = payments)]_vars

C7_Witness ==
    \E f \in Flows :
        /\ flows[f].pc = "done" /\ flows[f].outcome = "not_found"
        /\ ~Exists(payments, flows[f].payment_id)

(* C8: in every record that was approved, expires_at - approved_at is      *)
(* exactly thirty days, in both stores.                                    *)
C8_ExactlyThirtyDays ==
    \A p \in DOMAIN payments :
        payments[p].approved_at # NoTime
        => payments[p].expires_at - payments[p].approved_at = ThirtyDays

(* A finished get_user_active_packs call: the clock value it read is kept  *)
(* in `now`                                                                *)
PacksReturned(f) == flows[f].pc = "done" /\ flows[f].outcome \in {"welcome", "packs"}

(* C9: get_user_active_packs returns no pair whose expires_at is less than *)
(* or equal to the clock value the call read.                              *)
C9_NoExpiredPack ==
    \A f \in Flows :
        PacksReturned(f)
        => \A i \in 1..Len(flows[f].result) : flows[f].result[i][2] > flows[f].now

(* A call that left out a record of the user that expired on the very day  *)
(* of the call                                                             *)
C9_Witness ==
    \E f \in Flows, p \in DOMAIN payments :
        /\ PacksReturned(f)
        /\ payments[p].user_id = flows[f].user_id
        /\ payments[p].status = "approved"
        /\ payments[p].expires_at = flows[f].now
        /\ flows[f].result = <<>>

(* C10: the update of an authorized verification told `approved` leaves    *)
(* the record approved with expires_at = approved_at + 30 days; and        *)
(* get_user_active_packs(U), called before the expiry of U's one approved  *)
(* record, returns exactly that record's (pack_type, expires_at).          *)
C10_ApprovedThenActive ==
    [][\A f \in Flows :
          /\ (flows[f].pc = "update_body" /\ Finishes(f) /\ flows[f].status = "approved")
             => LET row == payments'[flows[f].payment_id] IN
                   /\ row.status = "approved"
                   /\ row.expires_at = row.approved_at + ThirtyDays
                   /\ row.pack_type = payments[flows[f].payment_id].pack_type
          /\ (flows[f].pc = "packs_body" /\ Finishes(f))
             => \A p \in DOMAIN payments :
                   (/\ payments[p].user_id = flows[f].user_id
                    /\ payments[p].status = "approved"
                    /\ flows[f].now < payments[p].expires_at
                    /\ \A q \in DOMAIN payments \ {p} :
                          payments[q].user_id # flows[f].user_id)
                   => flows'[f].result =
                         << <<payments[p].pack_type, payments[p].expires_at>> >>]_vars

(* /start answered with the one active pack of the user *)
C10_Witness ==
    \E f \in Flows, p \in DOMAIN payments :
        /\ flows[f].pc = "done" /\ flows[f].outcome = "welcome"
        /\ payments[p].user_id = flows[f].user_id
        /\ payments[p].status = "approved"
        /\ payments[p].expires_at = payments[p].approved_at + ThirtyDays
        /\ flows[f].result = << <<payments[p].pack_type, payments[p].expires_at>> >>

(* C11: the status of a record is monotonic: once it is approved,          *)
(* rejected or cancelled, no later verification changes it to any other    *)
(* status, whatever the provider then reports.                             *)
C11_StatusMonotonic ==
    [][\A p \in DOMAIN payments :
          payments[p].status \in {"approved", "rejected", "cancelled"}
          => (p \in DOMAIN payments' /\ payments'[p].status = payments[p].status)]_vars

(* The five statuses of the payment lifecycle *)
LifecycleStatuses == {"pending", "approved", "rejected", "cancelled", "unknown"}

(* C12: in every reachable state the status stored for a record, and the   *)
(* status a finished verification resolved to, is one of pending,          *)
(* approved, rejected, cancelled, unknown, whatever the provider returned. *)
C12_StatusInLifecycle ==
    /\ \A p \in DOMAIN payments : payments[p].status \in LifecycleStatuses
    /\ \A f \in Flows :
          (flows[f].pc = "done" /\ flows[f].outcome \notin {"not_found", "denied"})
          => flows[f].outcome \in LifecycleStatuses

(* The status query failed: the call raised, or the response carries no    *)
(* status                                                                  *)
QueryFailed(result) ==
    result.shape \in {"raise", "no_response", "no_status"} \/ result.status = ""

(* C13: when the status query of an authorized verification fails, the     *)
(* verification ends without a write: the table, and so the record's       *)
(* status, approved_at and expires_at, is left as it was.                  *)
C13_FailedQueryNoWrite ==
    [][\A f \in Flows :
          (flows[f].pc = "check_payment_status" /\ flows'[f] # flows[f])
          => \A result \in GetResults :
                (QueryFailed(result) /\ VerificationStatus(f, result))
                => (flows'[f].pc = "done" /\ payments' = payments)]_vars

(* A verification whose query failed has finished next to a record that an *)
(* earlier verification approved                                           *)
C13_Witness ==
    \E f \in Flows :
        /\ Verified(f, 1, None)
        /\ flows[f].outcome = "unknown"
        /\ payments[1].status = "approved"
        /\ payments[1].expires_at = payments[1].approved_at + ThirtyDays

(* C14: when the status query of an authorized verification fails, the     *)
(* status the verification reports is the status that was stored for the   *)
(* record when the verification looked it up.                              *)
C14_FailedQueryReportsStored ==
    [][\A f \in Flows :
          (flows[f].pc = "check_payment_status" /\ flows'[f] # flows[f])
          => \A result \in GetResults :
                (QueryFailed(result) /\ VerificationStatus(f, result))
                => flows'[f].outcome = flows[f].current_status]_vars

(* The calls to the payment provider a handler blocks in *)
GatewayCalls == {"create_payment", "check_payment_status"}

(* C16: no purchase or verification holds the store lock while it waits    *)
(* for the provider to create a charge or to report a status.              *)
C16_NoLockAcrossGateway ==
    \A f \in Flows : flows[f].pc \in GatewayCalls => lock # f

(* A purchase and a verification wait for the provider while the lock is   *)
(* free, and a verification waits while another flow is in a critical      *)
(* section.                                                                *)
C16_Witness ==
    \E f, g \in Flows :
        /\ f # g
        /\ flows[f].pc = "check_payment_status"
        /\ \/ flows[g].pc = "create_payment" /\ lock = NoLock
           \/ flows[g].pc = "update_body" /\ lock = g

(* The critical sections that only read the table *)
ReadBodies == {"lookup_body", "packs_body", "status_body", "orm_packs_body",
               "orm_active_body"}

(* A half-applied approval: the status flipped, expires_at still null *)
HalfApplied(row) == row.status = "approved" /\ row.expires_at = NoTime

(* C17: no read of the table (active packs, the lookup of a verification,  *)
(* the /status listing, the dashboard's listing), whatever updates run at  *)
(* the same time, sees a record with status approved and expires_at null.  *)
C17_NoHalfAppliedRead ==
    [][\A f \in Flows :
          (flows[f].pc \in ReadBodies /\ flows'[f] # flows[f])
          => \A p \in DOMAIN payments : ~HalfApplied(payments[p])]_vars

(* A read is in its critical section while an approving update waits for   *)
(* the lock, next to a record that is approved already                     *)
C17_Witness ==
    \E f, g \in Flows :
        /\ flows[f].pc \in ReadBodies
        /\ flows[g].pc \in {"update_lock", "orm_update_lock", "orm_update_commit"}
        /\ flows[g].status = "approved"
        /\ \E p \in DOMAIN payments :
              payments[p].status = "approved" /\ payments[p].expires_at # NoTime

(* The positions inside a `with self.lock` block *)
CriticalSections == {LockBody[k] : k \in DOMAIN LockBody} \cup {"orm_update_commit"}

(* What a finished handler reports when it has read the table *)
ReadOutcomes == {"not_found", "denied", "welcome", "status_list", "packs",
                 "active_payments", "no_row", "IntegrityError"}

(* Flow f is in a critical section only as the holder of the lock *)
Serialized(fl, lk) == \A f \in Flows : fl[f].pc \in CriticalSections => lk = f

(* C20: at most one flow at a time is inside a critical section of the     *)
(* store, and every step that writes the table or takes something read     *)
(* from it is a step of the flow that holds the lock.                      *)
C20_SerializedAccess ==
    [][/\ Serialized(flows, lock) /\ Serialized(flows', lock')
       /\ \A f, g \in Flows :
             (flows[f].pc \in CriticalSections /\ flows[g].pc \in CriticalSections)
             => f = g
       /\ payments' # payments
             => \E f \in Flows : lock = f /\ flows[f].pc \in CriticalSections
                                  /\ flows'[f] # flows[f]
       /\ \A f \in Flows :
             (/\ flows'[f] # flows[f]
              /\ \/ flows'[f].pc = "check_payment_status"
                 \/ flows'[f].pc = "done" /\ flows'[f].outcome \in ReadOutcomes)
             => (lock = f /\ flows[f].pc \in CriticalSections)]_vars

(* One flow is in a critical section and the other waits at its            *)
(* `with self.lock`; the second one wants to write.                        *)
C20_Witness ==
    \E f, g \in Flows :
        /\ flows[f].pc \in CriticalSections /\ lock = f
        /\ flows[g].pc \in {"save_lock", "update_lock", "orm_save_lock", "orm_update_lock"}

(* C15: save_payment called with a payment_id that has a record leaves the *)
(* record's created_at, pix_code, status, approved_at and expires_at as    *)
(* they were, in both stores.                                              *)
C15_SaveKeepsRecord ==
    [][\A f \in Flows :
          (/\ flows[f].pc \in {"store_save_body", "orm_save_body"}
           /\ flows'[f] # flows[f]
           /\ Exists(payments, flows[f].payment_id))
          => LET old == payments[flows[f].payment_id]
                 new == payments'[flows[f].payment_id] IN
                /\ new.created_at = old.created_at
                /\ new.pix_code = old.pix_code
                /\ new.status = old.status
                /\ new.approved_at = old.approved_at
                /\ new.expires_at = old.expires_at]_vars

(* A finished call of the PaymentManager method `method` *)
Called(f, method) == flows[f].pc = "done" /\ flows[f].outcome = method

(* C18: check_payment_status returns the status the provider's response    *)
(* carries when there is one, and None when the response has no status or  *)
(* the provider call raised.                                               *)
C18_StatusOrNone ==
    \A f \in Flows :
        Called(f, "check_payment_status")
        => LET result == flows[f].result[1]
               returned == flows[f].result[2] IN
              /\ ~QueryFailed(result) => returned = result.status
              /\ QueryFailed(result) => returned = None

(* One call returned the provider's `approved`, another one None after the *)
(* provider raised                                                         *)
C18_Witness ==
    \E f, g \in Flows :
        /\ Called(f, "check_payment_status")
        /\ flows[f].result = <<GetResult("status", "approved"), "approved">>
        /\ Called(g, "check_payment_status")
        /\ flows[g].result = <<GetResult("raise", None), None>>

(* C19: create_payment returns the provider's response unchanged, its id   *)
(* included, when the provider call succeeds, and None when it raises.     *)
C19_ResponseOrNone ==
    \A f \in Flows :
        Called(f, "create_payment")
        => LET result == flows[f].result[1]
               returned == flows[f].result[2] IN
              /\ result.shape # "raise" => (returned = result /\ returned.id = result.id)
              /\ result.shape = "raise" => returned.shape = None

(* One call returned a complete response with its id, another one None     *)
(* after the provider raised                                               *)
C19_Witness ==
    \E f, g \in Flows :
        /\ Called(f, "create_payment")
        /\ flows[f].result[1].shape = "complete"
        /\ flows[f].result[2].id \in PaymentIds
        /\ flows[f].result[2] = flows[f].result[1]
        /\ Called(g, "create_payment")
        /\ flows[g].result[1].shape = "raise"
        /\ flows[g].result[2].shape = None

(* The outcomes of a store call that are exceptions raised to the caller *)
StoreErrors == {"IntegrityError"}

(* Flow f is at the write of an update_payment_status call *)
Updating(f) ==
    flows[f].pc \in {"update_body", "store_update_body", "orm_update_body",
                     "orm_update_commit"}

(* C21: update_payment_status called with a payment_id that has no record  *)
(* fails with an error and leaves the table as it was, in both stores.     *)
C21_UpdateMissingFails ==
    [][\A f \in Flows :
          (/\ flows[f].pc \in {"store_update_body", "orm_update_body"}
           /\ flows'[f] # flows[f]
           /\ ~Exists(payments, flows[f].payment_id))
          => (/\ flows'[f].pc = "done"
              /\ flows'[f].outcome \in StoreErrors
              /\ payments' = payments)]_vars

(* C22: update_payment_status(id, s) with s other than approved changes    *)
(* the status of that record and nothing else: approved_at, expires_at,    *)
(* created_at, pix_code, user_id, chat_id and pack_type keep their values. *)
C22_OnlyStatusChanges ==
    [][\A f \in Flows :
          (/\ Updating(f)
           /\ flows'[f] # flows[f]
           /\ flows[f].status # "approved"
           /\ Exists(payments, flows[f].payment_id))
          => payments' = [payments EXCEPT ![flows[f].payment_id].status = flows[f].status]]_vars

(* An approved record was set to another status and kept its approval      *)
(* timestamps                                                              *)
C22_Witness ==
    \E f \in Flows :
        /\ flows[f].pc = "done" /\ flows[f].payment_id = 1
        /\ flows[f].status \in {"pending", "rejected", "cancelled", "in_process"}
        /\ payments[1].status = flows[f].status
        /\ payments[1].approved_at # NoTime
        /\ payments[1].expires_at = payments[1].approved_at + ThirtyDays
        /\ payments[1].pix_code = PixCode(1)

(* C23: records are never removed: a payment_id that has a record has one  *)
(* after every step of a purchase, verification, query or of the clock.    *)
C23_NeverRemoved ==
    [][\A p \in DOMAIN payments : p \in DOMAIN payments']_vars

(* A cancelled record, and an approved one that has expired, are still in  *)
(* the table                                                               *)
C23_Witness ==
    \E p \in DOMAIN payments :
        \/ payments[p].status = "cancelled" /\ clock > payments[p].created_at
        \/ /\ payments[p].status = "approved"
           /\ payments[p].expires_at # NoTime
           /\ payments[p].expires_at < clock

(* C26: a step of a verification or an update of payment_id p, and of a    *)
(* purchase or a save that creates p, changes no record with another       *)
(* payment_id and removes none.                                            *)
C26_OtherRecordsUntouched ==
    [][payments' # payments
       => \E f \in Flows :
             /\ lock = f
             /\ flows'[f] # flows[f]
             /\ \A q \in DOMAIN payments \ {flows[f].payment_id} :
                   q \in DOMAIN payments' /\ payments'[q] = payments[q]]_vars

(* The new charge was bought and approved next to the old record, which is *)
(* still pending                                                           *)
C26_Witness ==
    \E f \in Flows, p \in PaymentIds :
        /\ flows[f].pc = "done" /\ flows[f].payment_id = p
        /\ flows[f].status = "approved"
        /\ Exists(payments, p) /\ payments[p].status = "approved"
        /\ Exists(payments, OldId) /\ payments[OldId].status = "pending"
        /\ payments[OldId].approved_at = NoTime

(* Flow f is the update of a verification of p that the record's own user  *)
(* requested in the record's own chat and that was told `approved`         *)
Settling(f, p) ==
    /\ flows[f].pc = "update_body"
    /\ lock = f
    /\ flows[f].payment_id = p
    /\ flows[f].status = "approved"
    /\ Exists(payments, p)
    /\ flows[f].user_id = payments[p].user_id
    /\ flows[f].chat_id = payments[p].chat_id

(* C25: no entitlement without settlement.  In the bot, a record becomes   *)
(* approved only by the update of a verification of that payment_id by the *)
(* record's user in the record's chat, and a verification goes to that     *)
(* update with `approved` only when the provider reported approved to it.  *)
C25_NoEntitlementWithoutSettlement ==
    [][store = "sqlite3"
       => /\ \A p \in DOMAIN payments' :
                (/\ payments'[p].status = "approved"
                 /\ (Exists(payments, p) => payments[p].status # "approved"))
                => \E f \in Flows : Settling(f, p) /\ flows'[f] # flows[f]
          /\ \A f \in Flows :
                (/\ flows'[f].pc \in {"update_lock", "update_body"}
                 /\ flows'[f].status = "approved"
                 /\ flows[f].pc \notin {"update_lock", "update_body"})
                => (/\ flows[f].pc = "check_payment_status"
                    /\ VerificationStatus(f, GetResult("status", "approved"))
                    /\ Exists(payments, flows[f].payment_id)
                    /\ ~Denied(fetchone(payments, flows[f].payment_id),
                               flows[f].user_id, flows[f].chat_id))]_vars

(* A record approved for its owner next to a verification of it that was   *)
(* denied to somebody else                                                 *)
C25_Witness ==
    \E f, g \in Flows, p \in DOMAIN payments :
        /\ store = "sqlite3"
        /\ flows[f].pc = "done" /\ ApprovedRun(f, p)
        /\ payments[p].status = "approved"
        /\ flows[g].pc = "done" /\ flows[g].outcome = "denied" /\ flows[g].payment_id = p
        /\ flows[g].user_id # payments[p].user_id

(* The records get_user_active_packs(u) is to return at the instant `now` *)
Qualifying(u, now) ==
    {p \in DOMAIN payments :
        /\ payments[p].user_id = u
        /\ payments[p].status = "approved"
        /\ payments[p].expires_at > now}

(* C24: get_user_active_packs(u) returns one (pack_type, expires_at) pair   *)
(* for every record of u that is approved and expires after the instant    *)
(* the call read, and nothing else.                                        *)
C24_AllAndOnlyActive ==
    [][\A f \in Flows :
          (flows[f].pc \in {"packs_body", "orm_packs_body"} /\ Finishes(f))
          => LET now == flows'[f].now
                 Q == Qualifying(flows[f].user_id, now)
                 result == flows'[f].result IN
                /\ Len(result) = Cardinality(Q)
                /\ \A p \in Q : \E i \in 1..Len(result) :
                      result[i] = <<payments[p].pack_type, payments[p].expires_at>>
                /\ \A i \in 1..Len(result) : \E p \in Q :
                      result[i] = <<payments[p].pack_type, payments[p].expires_at>>]_vars

(* One user got both of their active packs, the other user none, from a    *)
(* table that holds two approved records of the first                      *)
C24_Witness ==
    \E f, g \in Flows :
        /\ PacksReturned(f) /\ Len(flows[f].result) = 2
        /\ \A p \in DOMAIN payments : payments[p].user_id = flows[f].user_id
        /\ PacksReturned(g) /\ flows[g].user_id # flows[f].user_id
        /\ flows[g].result = <<>>

(* C27: when the racing verifications of a payment have all completed, the *)
(* stored status is the status the provider returned to the query that was *)
(* answered last.                                                          *)
C27_LastQueryWins ==
    ((\A f \in Flows : flows[f].pc = "done") /\ flows[MaxFlows].status # None)
    => payments[1].status = flows[MaxFlows].status

(* C28: under fair scheduling every flow that waits for the lock comes to  *)
(* hold it, and every handler or store call that started comes to its end, *)
(* also when the store operation raised inside the critical section.       *)
C28_LockLiveness ==
    \A f \in Flows :
        /\ (flows[f].pc \in DOMAIN LockBody) ~> (lock = f)
        /\ (flows[f].pc \notin {"idle", "done"}) ~> (flows[f].pc = "done")

(* A save raised IntegrityError inside its critical section while the      *)
(* other thread waited for the lock                                        *)
C28_Witness ==
    \E f, g \in Flows :
        /\ flows[f].pc = "done" /\ flows[f].outcome = "IntegrityError"
        /\ lock = NoLock
        /\ flows[g].pc \in DOMAIN LockBody

====
